---- MODULE Spec2Model ----
(***************************************************************************)
(* Model of memc_load.py: a loader that reads tab-separated device logs,   *)
(* parses each line, routes the record to a memcached shard by device type *)
(* and writes it, under one of three runners (linear, threaded, async).    *)
(*                                                                         *)
(* Strings are sequences of one-character strings, so that strip, split,   *)
(* int() and float() are computed character by character.                  *)
(***************************************************************************)
EXTENDS Integers, Sequences, FiniteSets, TLC

(***************************************************************************)
(* Bounds of the model.                                                    *)
(***************************************************************************)
\* the paths the glob pattern yields, at most
MaxFiles == 2

\* the lines of all input files together, at most
MaxLines == 3

\* the tab-separated fields of a line given to the parser alone, at most
MaxFields == 6

(***************************************************************************)
(* Text helpers: str.strip, str.split, int(), float().                     *)
(***************************************************************************)
Whitespace == {" ", "\t", "\n"}

Digits == {"0", "1", "2", "3", "4", "5", "6", "7", "8", "9"}

DigitVal(c) ==
    CASE c = "0" -> 0 [] c = "1" -> 1 [] c = "2" -> 2 [] c = "3" -> 3
      [] c = "4" -> 4 [] c = "5" -> 5 [] c = "6" -> 6 [] c = "7" -> 7
      [] c = "8" -> 8 [] c = "9" -> 9

RECURSIVE lstrip(_)
lstrip(s) ==
    IF s # <<>> /\ Head(s) \in Whitespace THEN lstrip(Tail(s)) ELSE s

RECURSIVE rstrip(_)
rstrip(s) ==
    IF s # <<>> /\ s[Len(s)] \in Whitespace
    THEN rstrip(SubSeq(s, 1, Len(s) - 1))
    ELSE s

strip(s) == rstrip(lstrip(s))

\* str.split(sep): the fields between the separators, always at least one
RECURSIVE split(_, _)
split(s, sep) ==
    IF \E i \in 1..Len(s) : s[i] = sep
    THEN LET i == CHOOSE k \in 1..Len(s) :
                     s[k] = sep /\ \A j \in 1..(k - 1) : s[j] # sep
         IN  <<SubSeq(s, 1, i - 1)>> \o split(SubSeq(s, i + 1, Len(s)), sep)
    ELSE <<s>>

\* sep.join(parts)
RECURSIVE join(_, _)
join(parts, sep) ==
    IF parts = <<>> THEN <<>>
    ELSE IF Len(parts) = 1 THEN parts[1]
    ELSE parts[1] \o <<sep>> \o join(Tail(parts), sep)

AllDigits(s) == \A i \in 1..Len(s) : s[i] \in Digits

Unsigned(s) == IF s # <<>> /\ Head(s) \in {"+", "-"} THEN Tail(s) ELSE s

RECURSIVE DigitsVal(_)
DigitsVal(s) ==
    IF s = <<>> THEN 0
    ELSE 10 * DigitsVal(SubSeq(s, 1, Len(s) - 1)) + DigitVal(s[Len(s)])

\* int(s) succeeds: surrounding whitespace, an optional sign, one or more digits
IsInt(s) ==
    LET body == Unsigned(strip(s)) IN body # <<>> /\ AllDigits(body)

IntVal(s) ==
    LET t == strip(s)
        v == DigitsVal(Unsigned(t))
    IN  IF t # <<>> /\ Head(t) = "-" THEN 0 - v ELSE v

\* float(s) succeeds, for decimal literals without exponent:
\* surrounding whitespace, an optional sign, digits with at most one point
\* and at least one digit
IsFloat(s) ==
    LET body == Unsigned(strip(s))
        parts == split(body, ".")
    IN  /\ Len(parts) <= 2
        /\ \A i \in 1..Len(parts) : AllDigits(parts[i])
        /\ \E i \in 1..Len(parts) : parts[i] # <<>>

RECURSIVE Normalize(_, _)
Normalize(m, k) ==
    IF k > 0 /\ m % 10 = 0 THEN Normalize(m \div 10, k - 1) ELSE <<m, k>>

\* the value of float(s) as a decimal <<mantissa, fraction digits>>, normalised
FloatVal(s) ==
    LET t == strip(s)
        parts == split(Unsigned(t), ".")
        frac == IF Len(parts) = 2 THEN parts[2] ELSE <<>>
        n == Normalize(DigitsVal(parts[1] \o frac), Len(frac))
    IN  IF t # <<>> /\ Head(t) = "-" THEN <<0 - n[1], n[2]>> ELSE n

(***************************************************************************)
(* parse_appsinstalled                                                     *)
(***************************************************************************)
None == [tag |-> "None"]

ValueError == [tag |-> "ValueError"]

AppsInstalled(dev_type, dev_id, lat, lon, apps) ==
    [tag |-> "AppsInstalled", dev_type |-> dev_type, dev_id |-> dev_id,
     lat |-> lat, lon |-> lon, apps |-> apps]

\* the tuple assignment of line 32 raises ValueError unless there are
\* exactly five parts
Unpack5(line_parts) == Len(line_parts) = 5

parse_appsinstalled(line) ==
    LET line_parts == split(strip(line), "\t") IN
    IF Len(line_parts) < 5 THEN None
    ELSE IF ~Unpack5(line_parts) THEN ValueError
    ELSE
      LET dev_type == line_parts[1]
          dev_id == line_parts[2]
          lat == line_parts[3]
          lon == line_parts[4]
          raw_apps == split(line_parts[5], ",")
      IN  IF dev_type = <<>> \/ dev_id = <<>> THEN None
          ELSE IF \E i \in 1..Len(raw_apps) : ~IsInt(raw_apps[i]) THEN None
          ELSE IF ~IsFloat(lat) \/ ~IsFloat(lon) THEN None
          ELSE AppsInstalled(dev_type, dev_id, FloatVal(lat), FloatVal(lon),
                             [i \in 1..Len(raw_apps) |-> IntVal(raw_apps[i])])

(***************************************************************************)
(* Input lines.                                                            *)
(***************************************************************************)
idfa == <<"i", "d", "f", "a">>
gaid == <<"g", "a", "i", "d">>
adid == <<"a", "d", "i", "d">>
dvid == <<"d", "v", "i", "d">>
unknown == <<"u", "n", "k", "n", "o", "w", "n">>

\* "idfa\tabc\t55.55\t37.37\t42,43"
LineIdfa ==
    join(<<idfa, <<"a", "b", "c">>, <<"5", "5", ".", "5", "5">>,
           <<"3", "7", ".", "3", "7">>, <<"4", "2", ",", "4", "3">>>>, "\t")
      \o <<"\n">>

\* "gaid\tid1\t1.0\t1.0\t1"
LineGaid ==
    join(<<gaid, <<"i", "d", "1">>, <<"1", ".", "0">>, <<"1", ".", "0">>,
           <<"1">>>>, "\t") \o <<"\n">>

\* "idfa\t\t55.55\t37.37\t42": empty device id
LineNoId ==
    join(<<idfa, <<>>, <<"5", "5", ".", "5", "5">>,
           <<"3", "7", ".", "3", "7">>, <<"4", "2">>>>, "\t") \o <<"\n">>

\* "idfa\tabc\t1.0\t1.0\t1,x": an app id that is not an integer
LineBadApps ==
    join(<<idfa, <<"a", "b", "c">>, <<"1", ".", "0">>, <<"1", ".", "0">>,
           <<"1", ",", "x">>>>, "\t") \o <<"\n">>

\* "unknown\tid1\t1.0\t1.0\t1": a device type that has no shard
LineUnknown ==
    join(<<unknown, <<"i", "d", "1">>, <<"1", ".", "0">>, <<"1", ".", "0">>,
           <<"1">>>>, "\t") \o <<"\n">>

\* "idfa\tabc\t1.0\t1.0\t1\tx": six fields
LineSixFields ==
    join(<<idfa, <<"a", "b", "c">>, <<"1", ".", "0">>, <<"1", ".", "0">>,
           <<"1">>, <<"x">>>>, "\t") \o <<"\n">>

Lines ==
    {LineIdfa, LineGaid, LineNoId, LineBadApps, LineUnknown, LineSixFields}

\* parse_appsinstalled on each of the input lines
parsed == [line \in Lines |-> parse_appsinstalled(line)]

\* the fields the parser's inputs are built from
FieldTokens ==
    {<<>>, idfa, <<"1", ",", " ", "2">>, <<"1", ".", "5">>, <<"-", "3">>}

RECURSIVE FieldSeqs(_)
FieldSeqs(n) ==
    IF n = 0 THEN {<<>>}
    ELSE LET shorter == FieldSeqs(n - 1)
         IN  shorter \cup {Append(fs, t) : fs \in {g \in shorter : Len(g) = n - 1},
                                           t \in FieldTokens}

ParseInputs == {join(fs, "\t") \o <<"\n">> : fs \in FieldSeqs(MaxFields)}

(***************************************************************************)
(* Configuration: the option defaults and the shard table built by main.   *)
(***************************************************************************)
Modes == {"linear", "threaded", "async"}

\* the defaults of --idfa, --gaid, --adid, --dvid
options_memc ==
    (idfa :> "127.0.0.1:33013") @@ (gaid :> "127.0.0.1:33014")
      @@ (adid :> "127.0.0.1:33015") @@ (dvid :> "127.0.0.1:33016")

\* an address given on the command line that names no store
BadAddr == "127.0.0.1:port"

\* the option values of a run: the defaults, or --idfa given as BadAddr
OptionTables == {options_memc, [options_memc EXCEPT ![idfa] = BadAddr]}

Shards == UNION {{t[k] : k \in DOMAIN t} : t \in OptionTables}

\* dict.get(key): the value, or the falsy None written "" here
get(dict, key) == IF key \in DOMAIN dict THEN dict[key] ELSE ""

(***************************************************************************)
(* The store write of one record.  raises: memc.set / client.set raises.   *)
(* The result is "True", "False", or "Exception" when an exception leaves  *)
(* the function.                                                           *)
(***************************************************************************)
\* variant: the try/except around the write is missing
insert_appsinstalled_uncaught(memc_addr, raises, dry_run) ==
    IF dry_run THEN "True"
    ELSE IF raises THEN "Exception"
    ELSE "True"

insert_appsinstalled(memc_addr, raises, dry_run) ==
    IF dry_run THEN "True"
    ELSE IF raises THEN "False"
    ELSE "True"

\* the network writes insert_appsinstalled performs
insert_network_io(dry_run) == IF dry_run THEN 0 ELSE 1

insert_appsinstalled_async(memc_addr, raises) ==
    IF raises THEN "False" ELSE "True"

\* insert_appsinstalled_async has no dry-run parameter: it always connects
insert_async_network_io(dry_run) == 1

\* variant: a failed write is tried again
AfterInsertRetry(result) ==
    IF result = "Exception" THEN "raised"
    ELSE IF result = "False" THEN "write"
    ELSE "read"

\* the position of process_file after insert_appsinstalled returned
AfterInsert(result) == IF result = "Exception" THEN "raised" ELSE "read"

(***************************************************************************)
(* State.                                                                  *)
(***************************************************************************)
VARIABLES
    mode,            \* options.mode
    dry,             \* options.dry
    nfiles,          \* the number of paths glob.iglob yields
    options,         \* options.idfa, options.gaid, options.adid, options.dvid
    device_memc,     \* options.device_memc
    mpc,             \* position of main
    midx,            \* the file main is at (loop index over files / futures)
    total_processed, \* sum of the processed counts reported
    total_errors,    \* sum of the error counts reported
    fpc,             \* per file: position of process_file / process_file_async
    fcause,          \* per file: what raised, "" if nothing
    flines,          \* per file: lines read
    fprocessed,      \* per file: the local / returned processed count
    ferrors,         \* per file: the local / returned errors count
    cur,             \* per file: memc_addr of the record being written
    tasks,           \* per file: states of the insert tasks (async)
    nNone,           \* per file: lines the parser rejected
    nUnknown,        \* per file: records without a shard
    nSucc,           \* per file: writes that returned True
    nFail,           \* per file: writes that raised
    attempts,        \* per file: write operations started
    netWrites,       \* network writes performed
    routed,          \* per shard: records routed, current file (linear)
    flushes,         \* per shard: store operations, current file (linear)
    completed,       \* the files in the order their processing returned
    pline,           \* parser check: the input line
    pres,            \* parser check: the result
    ppc              \* parser check: position

fvars == <<fpc, fcause, flines, fprocessed, ferrors, cur, tasks,
           nNone, nUnknown, nSucc, nFail, attempts>>

mvars == <<mpc, midx, total_processed, total_errors>>

cvars == <<mode, dry, nfiles, options>>

svars == <<routed, flushes>>

pvars == <<pline, pres, ppc>>

vars == <<cvars, device_memc, mvars, fvars, netWrites, svars, completed, pvars>>

Files == 1..MaxFiles

RECURSIVE Total(_, _)
Total(fn, n) == IF n = 0 THEN 0 ELSE Total(fn, n - 1) + fn[n]

\* the lines read so far from all files; the input holds MaxLines at most
LinesRead == Total(flines, MaxFiles)

ZeroShards == [a \in Shards |-> 0]

RunnerIdle ==
    /\ device_memc = <<>>
    /\ midx = 1
    /\ total_processed = 0
    /\ total_errors = 0
    /\ fpc = [f \in Files |-> "idle"]
    /\ fcause = [f \in Files |-> ""]
    /\ flines = [f \in Files |-> 0]
    /\ fprocessed = [f \in Files |-> 0]
    /\ ferrors = [f \in Files |-> 0]
    /\ cur = [f \in Files |-> ""]
    /\ tasks = [f \in Files |-> <<>>]
    /\ nNone = [f \in Files |-> 0]
    /\ nUnknown = [f \in Files |-> 0]
    /\ nSucc = [f \in Files |-> 0]
    /\ nFail = [f \in Files |-> 0]
    /\ attempts = [f \in Files |-> 0]
    /\ netWrites = 0
    /\ routed = ZeroShards
    /\ flushes = ZeroShards
    /\ completed = <<>>

Init ==
    /\ mode \in Modes
    /\ dry \in BOOLEAN
    /\ nfiles \in 0..MaxFiles
    /\ options = options_memc
    /\ mpc = "start"
    /\ RunnerIdle
    /\ pline = <<>>
    /\ pres = None
    /\ ppc = "off"

(***************************************************************************)
(* process_file: the synchronous file loop of the linear and threaded      *)
(* runners.                                                                *)
(***************************************************************************)
Sync == mode \in {"linear", "threaded"}

\* ThreadPoolExecutor(): the default pool has min(32, cpu_count + 4) threads,
\* five at least
PoolWorkers == 5

\* the files a thread is working on
Busy == {g \in Files : fpc[g] \in {"read", "write", "hung"}}

\* variant: ThreadPoolExecutor(max_workers=1)
WorkerFreeSingle == mode = "threaded" => Cardinality(Busy) < 1

\* a submitted file starts when a thread of the pool is free
WorkerFree == mode = "threaded" => Cardinality(Busy) < PoolWorkers

\* gzip.open and the first read: the file may be missing or not gzip
OpenFile(f) ==
    /\ Sync
    /\ fpc[f] = "open"
    /\ WorkerFree
    /\ \E ok \in BOOLEAN :
         /\ fpc' = [fpc EXCEPT ![f] = IF ok THEN "read" ELSE "raised"]
         /\ fcause' = [fcause EXCEPT ![f] = IF ok THEN "" ELSE "open"]
    /\ UNCHANGED <<cvars, device_memc, mvars, flines, fprocessed, ferrors, cur,
                   tasks, nNone, nUnknown, nSucc, nFail, attempts, netWrites,
                   svars, pvars,
                   completed>>

\* one iteration of the for loop up to the call of insert_appsinstalled
ReadLine(f) ==
    /\ Sync
    /\ fpc[f] = "read"
    /\ LinesRead < MaxLines
    /\ \E line \in Lines :
         LET appsinstalled == parsed[line]
             memc_addr == get(device_memc, appsinstalled.dev_type)
         IN  /\ flines' = [flines EXCEPT ![f] = @ + 1]
             /\ IF appsinstalled.tag = "ValueError"
                THEN /\ fpc' = [fpc EXCEPT ![f] = "raised"]
                     /\ fcause' = [fcause EXCEPT ![f] = "parse"]
                     /\ UNCHANGED <<ferrors, nNone, nUnknown, cur, routed>>
                ELSE IF appsinstalled.tag = "None"
                THEN /\ ferrors' = [ferrors EXCEPT ![f] = @ + 1]
                     /\ nNone' = [nNone EXCEPT ![f] = @ + 1]
                     /\ UNCHANGED <<fpc, fcause, nUnknown, cur, routed>>
                ELSE IF memc_addr = ""
                THEN /\ ferrors' = [ferrors EXCEPT ![f] = @ + 1]
                     /\ nUnknown' = [nUnknown EXCEPT ![f] = @ + 1]
                     /\ UNCHANGED <<fpc, fcause, nNone, cur, routed>>
                ELSE /\ fpc' = [fpc EXCEPT ![f] = "write"]
                     /\ cur' = [cur EXCEPT ![f] = memc_addr]
                     /\ routed' = IF mode = "linear"
                                  THEN [routed EXCEPT ![memc_addr] = @ + 1]
                                  ELSE routed
                     /\ UNCHANGED <<fcause, ferrors, nNone, nUnknown>>
    /\ UNCHANGED <<cvars, device_memc, mvars, fprocessed, tasks, nSucc, nFail,
                   attempts, netWrites, flushes, pvars, completed>>

\* the call of insert_appsinstalled and the counting of its result
Insert(f) ==
    /\ Sync
    /\ fpc[f] = "write"
    /\ \E raises \in IF dry THEN {FALSE} ELSE BOOLEAN :
         LET result == insert_appsinstalled(cur[f], raises, dry)
         IN  /\ attempts' = [attempts EXCEPT ![f] = @ + 1]
             /\ netWrites' = netWrites + insert_network_io(dry)
             /\ flushes' = IF mode = "linear"
                           THEN [flushes EXCEPT ![cur[f]] = @ + 1]
                           ELSE flushes
             /\ nSucc' = [nSucc EXCEPT ![f] = IF raises THEN @ ELSE @ + 1]
             /\ nFail' = [nFail EXCEPT ![f] = IF raises THEN @ + 1 ELSE @]
             /\ fprocessed' = [fprocessed EXCEPT
                                 ![f] = IF result = "True" THEN @ + 1 ELSE @]
             /\ ferrors' = [ferrors EXCEPT
                              ![f] = IF result = "False" THEN @ + 1 ELSE @]
             /\ fpc' = [fpc EXCEPT ![f] = AfterInsert(result)]
             /\ fcause' = [fcause EXCEPT
                             ![f] = IF result = "Exception" THEN "write" ELSE @]
             /\ cur' = [cur EXCEPT ![f] = IF AfterInsert(result) = "write"
                                          THEN @ ELSE ""]
    /\ UNCHANGED <<cvars, device_memc, mvars, flines, tasks, nNone, nUnknown,
                   routed, pvars, completed>>

\* the end of the file: process_file logs and returns (processed, errors)
EndOfFile(f) ==
    /\ Sync
    /\ fpc[f] = "read"
    /\ fpc' = [fpc EXCEPT ![f] = "done"]
    /\ completed' = Append(completed, f)
    /\ UNCHANGED <<cvars, device_memc, mvars, fcause, flines, fprocessed,
                   ferrors, cur, tasks, nNone, nUnknown, nSucc, nFail,
                   attempts, netWrites, svars, pvars>>

\* the store never answers: memc.set blocks for ever
Hang(f) ==
    /\ Sync
    /\ fpc[f] = "write"
    /\ ~dry
    /\ fpc' = [fpc EXCEPT ![f] = "hung"]
    /\ attempts' = [attempts EXCEPT ![f] = @ + 1]
    /\ netWrites' = netWrites + insert_network_io(dry)
    /\ UNCHANGED <<cvars, device_memc, mvars, fcause, flines, fprocessed,
                   ferrors, cur, tasks, nNone, nUnknown, nSucc, nFail, svars,
                   pvars, completed>>

\* the steps of the thread that works on file f
WorkerStep(f) == OpenFile(f) \/ ReadLine(f) \/ Insert(f) \/ EndOfFile(f)

(***************************************************************************)
(* process_file_async and its insert tasks (cooperative runner).           *)
(***************************************************************************)
Finished(t) == t \in {"True", "False", "Exception"}

Count(seq, v) == Cardinality({i \in 1..Len(seq) : seq[i] = v})

\* variant: the write is scheduled on the loop when it is created
NewTaskStarted(memc_addr) == "awaiting"

\* calling insert_appsinstalled_async makes a coroutine object; none of its
\* body runs before it is awaited
NewTask(memc_addr) == "created"

\* aiofiles.open: the file may be missing or unreadable as text
AsyncOpenFile(f) ==
    /\ mode = "async"
    /\ fpc[f] = "open"
    /\ \E ok \in BOOLEAN :
         /\ fpc' = [fpc EXCEPT ![f] = IF ok THEN "read" ELSE "raised"]
         /\ fcause' = [fcause EXCEPT ![f] = IF ok THEN "" ELSE "open"]
    /\ UNCHANGED <<cvars, device_memc, mvars, flines, fprocessed, ferrors, cur,
                   tasks, nNone, nUnknown, nSucc, nFail, attempts, netWrites,
                   svars, pvars,
                   completed>>

\* one iteration of the async for loop: the coroutine of the write is
\* created and appended, not started
AsyncReadLine(f) ==
    /\ mode = "async"
    /\ fpc[f] = "read"
    /\ LinesRead < MaxLines
    /\ \E line \in Lines :
         LET appsinstalled == parsed[line]
             memc_addr == get(device_memc, appsinstalled.dev_type)
         IN  /\ flines' = [flines EXCEPT ![f] = @ + 1]
             /\ IF appsinstalled.tag = "ValueError"
                THEN /\ fpc' = [fpc EXCEPT ![f] = "raised"]
                     /\ fcause' = [fcause EXCEPT ![f] = "parse"]
                     /\ UNCHANGED <<nNone, nUnknown, tasks>>
                ELSE IF appsinstalled.tag = "None"
                THEN /\ nNone' = [nNone EXCEPT ![f] = @ + 1]
                     /\ UNCHANGED <<fpc, fcause, nUnknown, tasks>>
                ELSE IF memc_addr = ""
                THEN /\ nUnknown' = [nUnknown EXCEPT ![f] = @ + 1]
                     /\ UNCHANGED <<fpc, fcause, nNone, tasks>>
                ELSE /\ tasks' = [tasks EXCEPT
                                     ![f] = Append(@, NewTask(memc_addr))]
                     /\ UNCHANGED <<fpc, fcause, nNone, nUnknown>>
    /\ UNCHANGED <<cvars, device_memc, mvars, fprocessed, ferrors, cur, nSucc,
                   nFail, attempts, netWrites, svars, pvars,
                   completed>>

\* the end of the file: asyncio.gather starts every insert task, each runs
\* up to its network write
AsyncGather(f) ==
    /\ mode = "async"
    /\ fpc[f] = "read"
    /\ fpc' = [fpc EXCEPT ![f] = "gather"]
    /\ tasks' = [tasks EXCEPT ![f] = [i \in 1..Len(@) |-> "awaiting"]]
    /\ attempts' = [attempts EXCEPT ![f] = @ + Len(tasks[f])]
    /\ netWrites' = netWrites + Len(tasks[f]) * insert_async_network_io(dry)
    /\ UNCHANGED <<cvars, device_memc, mvars, fcause, flines, fprocessed,
                   ferrors, cur, nNone, nUnknown, nSucc, nFail, svars, pvars,
                   completed>>

\* variant: the writes are awaited one after the other
RunnableInOrder(ts, i) ==
    ts[i] = "awaiting" /\ \A j \in 1..(i - 1) : Finished(ts[j])

\* gather runs the tasks concurrently: each goes on when its own write ends
Runnable(ts, i) == ts[i] = "awaiting"

\* the network write of one insert task completes or raises
AsyncInsertDone(f, i) ==
    /\ mode = "async"
    /\ fpc[f] = "gather"
    /\ i \in 1..Len(tasks[f])
    /\ Runnable(tasks[f], i)
    /\ \E raises \in BOOLEAN :
         /\ tasks' = [tasks EXCEPT
                        ![f][i] = insert_appsinstalled_async("", raises)]
         /\ nSucc' = [nSucc EXCEPT ![f] = IF raises THEN @ ELSE @ + 1]
         /\ nFail' = [nFail EXCEPT ![f] = IF raises THEN @ + 1 ELSE @]
    /\ UNCHANGED <<cvars, device_memc, mvars, fpc, fcause, flines, fprocessed,
                   ferrors, cur, nNone, nUnknown, attempts, netWrites, svars,
                   pvars, completed>>

\* the store never answers: the await of client.set never resumes
AsyncHang(f, i) ==
    /\ mode = "async"
    /\ fpc[f] = "gather"
    /\ i \in 1..Len(tasks[f])
    /\ tasks[f][i] = "awaiting"
    /\ tasks' = [tasks EXCEPT ![f][i] = "hung"]
    /\ UNCHANGED <<cvars, device_memc, mvars, fpc, fcause, flines, fprocessed,
                   ferrors, cur, nNone, nUnknown, nSucc, nFail, attempts,
                   netWrites, svars, pvars, completed>>

\* the (processed, errors) of the results of gather(return_exceptions=True)
GatherCounts(results) ==
    LET processed == Count(results, "True")
    IN  <<processed, Len(results) - processed>>

\* variant: the gather returns as soon as one task has failed
GatherFailFast(ts) ==
    \/ \A i \in 1..Len(ts) : Finished(ts[i])
    \/ \E i \in 1..Len(ts) : ts[i] = "False"

\* asyncio.gather resumes its caller when every awaitable has a result
GatherReturns(ts) == \A i \in 1..Len(ts) : Finished(ts[i])

\* gather returns once every task is finished; the function returns the
\* file's counts and its local lists are gone
AsyncFileDone(f) ==
    /\ mode = "async"
    /\ fpc[f] = "gather"
    /\ GatherReturns(tasks[f])
    /\ fprocessed' = [fprocessed EXCEPT ![f] = GatherCounts(tasks[f])[1]]
    /\ ferrors' = [ferrors EXCEPT ![f] = GatherCounts(tasks[f])[2]]
    /\ fpc' = [fpc EXCEPT ![f] = "done"]
    /\ tasks' = [tasks EXCEPT ![f] = <<>>]
    /\ completed' = Append(completed, f)
    /\ UNCHANGED <<cvars, device_memc, mvars, fcause, flines, cur, nNone,
                   nUnknown, nSucc, nFail, attempts, netWrites, svars, pvars>>

(***************************************************************************)
(* main and process_files_async.                                           *)
(***************************************************************************)
Yielded == 1..nfiles

FileEnded(f) == fpc[f] \in {"done", "raised"}

\* main builds the shard table and enters the branch of options.mode
MainStart ==
    /\ mpc = "start"
    /\ device_memc' = [k \in {idfa, gaid, adid, dvid} |-> options[k]]
    /\ mpc' = CASE mode = "linear" -> "loop"
                [] mode = "threaded" -> "submit"
                [] mode = "async" -> "async"
    /\ UNCHANGED <<cvars, midx, total_processed, total_errors, fvars,
                   netWrites, svars, pvars,
                   completed>>

\* variant: main starts a file without waiting for the one before it
LinearCallAhead ==
    /\ mpc = "loop"
    /\ \E f \in Yielded :
         /\ fpc[f] = "idle"
         /\ fpc' = [fpc EXCEPT ![f] = "open"]
    /\ routed' = ZeroShards
    /\ flushes' = ZeroShards
    /\ UNCHANGED <<cvars, device_memc, mvars, fcause, flines, fprocessed,
                   ferrors, cur, tasks, nNone, nUnknown, nSucc, nFail,
                   attempts, netWrites, pvars, completed>>

\* linear: main calls process_file on the next path
LinearCall ==
    /\ mpc = "loop"
    /\ midx \in Yielded
    /\ fpc[midx] = "idle"
    /\ fpc' = [fpc EXCEPT ![midx] = "open"]
    /\ routed' = ZeroShards
    /\ flushes' = ZeroShards
    /\ UNCHANGED <<cvars, device_memc, mvars, fcause, flines, fprocessed,
                   ferrors, cur, tasks, nNone, nUnknown, nSucc, nFail,
                   attempts, netWrites, pvars, completed>>

\* variant: the loop drops the path that follows a finished file
LinearLogSkip ==
    /\ mpc = "loop"
    /\ midx \in Yielded
    /\ fpc[midx] = "done"
    /\ total_processed' = total_processed + fprocessed[midx]
    /\ total_errors' = total_errors + ferrors[midx]
    /\ midx' = midx + 2
    /\ UNCHANGED <<cvars, device_memc, mpc, fvars, netWrites, svars, pvars,
                   completed>>

\* linear: process_file returned, main logs the counts and goes on
LinearLog ==
    /\ mpc = "loop"
    /\ midx \in Yielded
    /\ fpc[midx] = "done"
    /\ total_processed' = total_processed + fprocessed[midx]
    /\ total_errors' = total_errors + ferrors[midx]
    /\ midx' = midx + 1
    /\ UNCHANGED <<cvars, device_memc, mpc, fvars, netWrites, svars, pvars,
                   completed>>

\* linear: an exception of process_file leaves main
LinearRaise ==
    /\ mpc = "loop"
    /\ midx \in Yielded
    /\ fpc[midx] = "raised"
    /\ mpc' = "raised"
    /\ UNCHANGED <<cvars, device_memc, midx, total_processed, total_errors,
                   fvars, netWrites, svars, pvars,
                   completed>>

\* linear: the paths are exhausted, main returns
LinearEnd ==
    /\ mpc = "loop"
    /\ midx > nfiles
    /\ mpc' = "returned"
    /\ UNCHANGED <<cvars, device_memc, midx, total_processed, total_errors,
                   fvars, netWrites, svars, pvars,
                   completed>>

\* threaded: executor.submit(process_file, filename, options); a worker
\* takes the file
Submit ==
    /\ mpc = "submit"
    /\ midx \in Yielded
    /\ fpc' = [fpc EXCEPT ![midx] = "open"]
    /\ midx' = midx + 1
    /\ UNCHANGED <<cvars, device_memc, mpc, total_processed, total_errors,
                   fcause, flines, fprocessed, ferrors, cur, tasks, nNone,
                   nUnknown, nSucc, nFail, attempts, netWrites, svars, pvars,
                   completed>>

\* threaded: every path is submitted, main turns to the futures
SubmitEnd ==
    /\ mpc = "submit"
    /\ midx > nfiles
    /\ mpc' = "collect"
    /\ midx' = 1
    /\ UNCHANGED <<cvars, device_memc, total_processed, total_errors, fvars,
                   netWrites, svars, pvars,
                   completed>>

\* variant: main reads the counts of a worker that has not returned yet
ResultPeeked(f) == fpc[f] \in {"read", "write", "done"}

\* future.result() blocks until the call of process_file has returned
ResultReady(f) == fpc[f] = "done"

\* threaded: future.result() of the next future returns, main logs it
Collect ==
    /\ mpc = "collect"
    /\ midx \in Yielded
    /\ ResultReady(midx)
    /\ total_processed' = total_processed + fprocessed[midx]
    /\ total_errors' = total_errors + ferrors[midx]
    /\ midx' = midx + 1
    /\ UNCHANGED <<cvars, device_memc, mpc, fvars, netWrites, svars, pvars,
                   completed>>

\* threaded: future.result() re-raises the exception of the worker
CollectRaise ==
    /\ mpc = "collect"
    /\ midx \in Yielded
    /\ fpc[midx] = "raised"
    /\ mpc' = "exit_exc"
    /\ UNCHANGED <<cvars, device_memc, midx, total_processed, total_errors,
                   fvars, netWrites, svars, pvars,
                   completed>>

\* threaded: every future is collected
CollectEnd ==
    /\ mpc = "collect"
    /\ midx > nfiles
    /\ mpc' = "exit"
    /\ UNCHANGED <<cvars, device_memc, midx, total_processed, total_errors,
                   fvars, netWrites, svars, pvars,
                   completed>>

\* threaded: the with block waits for every worker, then main returns or
\* the pending exception leaves it
ExecutorExit ==
    /\ mpc \in {"exit", "exit_exc"}
    /\ \A f \in Yielded : FileEnded(f)
    /\ mpc' = IF mpc = "exit" THEN "returned" ELSE "raised"
    /\ UNCHANGED <<cvars, device_memc, midx, total_processed, total_errors,
                   fvars, netWrites, svars, pvars,
                   completed>>

\* async: process_files_async creates one process_file_async per path and
\* gathers them
AsyncMain ==
    /\ mpc = "async"
    /\ fpc' = [f \in Files |-> IF f \in Yielded THEN "open" ELSE fpc[f]]
    /\ mpc' = "gather"
    /\ UNCHANGED <<cvars, device_memc, midx, total_processed, total_errors,
                   fcause, flines, fprocessed, ferrors, cur, tasks, nNone,
                   nUnknown, nSucc, nFail, attempts, netWrites, svars, pvars,
                   completed>>

\* variant: the total is the result of the file that returned last
SumTuplesLastWins(r, S) ==
    IF S = {} THEN 0
    ELSE LET last == CHOOSE i \in 1..Len(completed) :
                       /\ completed[i] \in S
                       /\ \A j \in (i + 1)..Len(completed) : completed[j] \notin S
         IN  r[completed[last]]

\* sum(r[k] for r in results if isinstance(r, tuple)), S the tuples
RECURSIVE SumTuples(_, _)
SumTuples(r, S) ==
    IF S = {} THEN 0
    ELSE LET f == CHOOSE x \in S : TRUE
         IN  r[f] + SumTuples(r, S \ {f})

\* variant: the exception of a file task leaves the gather and the run
AsyncSumFailFast ==
    /\ mpc = "gather"
    /\ \A f \in Yielded : FileEnded(f)
    /\ LET tuples == {f \in Yielded : fpc[f] = "done"}
       IN  IF tuples = Yielded
           THEN /\ total_processed' = SumTuples(fprocessed, tuples)
                /\ total_errors' = SumTuples(ferrors, tuples)
                /\ mpc' = "returned"
           ELSE /\ UNCHANGED <<total_processed, total_errors>>
                /\ mpc' = "raised"
    /\ UNCHANGED <<cvars, device_memc, midx, fvars, netWrites, svars, pvars,
                   completed>>

\* async: gather(return_exceptions=True) returns, the tuples are summed
AsyncSum ==
    /\ mpc = "gather"
    /\ \A f \in Yielded : FileEnded(f)
    /\ LET tuples == {f \in Yielded : fpc[f] = "done"}
       IN  /\ total_processed' = SumTuples(fprocessed, tuples)
           /\ total_errors' = SumTuples(ferrors, tuples)
    /\ mpc' = "returned"
    /\ UNCHANGED <<cvars, device_memc, midx, fvars, netWrites, svars, pvars,
                   completed>>

(***************************************************************************)
(* The parser on its own: one call on an input line.                       *)
(***************************************************************************)
ParseInit ==
    /\ mode = "linear"
    /\ dry = TRUE
    /\ nfiles = 0
    /\ options = options_memc
    /\ mpc = "off"
    /\ RunnerIdle
    /\ pline \in ParseInputs
    /\ pres = None
    /\ ppc = "call"

ParseCall ==
    /\ ppc = "call"
    /\ pres' = parse_appsinstalled(pline)
    /\ ppc' = IF pres'.tag = "ValueError" THEN "raised" ELSE "returned"
    /\ UNCHANGED <<cvars, device_memc, mvars, fvars, netWrites, svars, completed,
                   pline>>

ParseNext == ParseCall

ParseSpec == ParseInit /\ [][ParseNext]_vars

(***************************************************************************)
(* The runners.                                                            *)
(***************************************************************************)
Next ==
    \/ MainStart
    \/ LinearCall \/ LinearLog \/ LinearRaise \/ LinearEnd
    \/ Submit \/ SubmitEnd \/ Collect \/ CollectRaise \/ CollectEnd
    \/ ExecutorExit
    \/ AsyncMain \/ AsyncSum
    \/ \E f \in Files :
         \/ OpenFile(f) \/ ReadLine(f) \/ Insert(f) \/ EndOfFile(f)
         \/ AsyncOpenFile(f) \/ AsyncReadLine(f) \/ AsyncGather(f)
         \/ AsyncFileDone(f)
         \/ \E i \in 1..MaxLines : AsyncInsertDone(f, i)

Spec == Init /\ [][Next]_vars

(***************************************************************************)
(* The worker-pool runner with writes that may never return, under fair    *)
(* scheduling of the main thread and of each worker thread.                *)
(***************************************************************************)
ThreadedInit ==
    /\ mode = "threaded"
    /\ dry = FALSE
    /\ nfiles \in 0..MaxFiles
    /\ options = options_memc
    /\ mpc = "start"
    /\ RunnerIdle
    /\ pline = <<>>
    /\ pres = None
    /\ ppc = "off"

ThreadedMain ==
    \/ MainStart
    \/ Submit \/ SubmitEnd \/ Collect \/ CollectRaise \/ CollectEnd
    \/ ExecutorExit

ThreadedNext ==
    \/ ThreadedMain
    \/ \E f \in Files :
         \/ OpenFile(f) \/ ReadLine(f) \/ Insert(f) \/ EndOfFile(f)
         \/ Hang(f)

ThreadedHangSpec ==
    /\ ThreadedInit
    /\ [][ThreadedNext]_vars
    /\ WF_vars(ThreadedMain)
    /\ \A f \in Files : WF_vars(WorkerStep(f))

(***************************************************************************)
(* The cooperative runner with writes that may never return, under fair    *)
(* scheduling of the tasks of the event loop.                              *)
(***************************************************************************)
AsyncInit ==
    /\ mode = "async"
    /\ dry = FALSE
    /\ nfiles \in 0..MaxFiles
    /\ options = options_memc
    /\ mpc = "start"
    /\ RunnerIdle
    /\ pline = <<>>
    /\ pres = None
    /\ ppc = "off"

AsyncMainTask == MainStart \/ AsyncMain \/ AsyncSum

\* the steps of the task of process_file_async on file f and of the insert
\* tasks it gathers
AsyncFileTask(f) ==
    \/ AsyncOpenFile(f) \/ AsyncReadLine(f) \/ AsyncGather(f)
    \/ AsyncFileDone(f)
    \/ \E i \in 1..MaxLines : AsyncInsertDone(f, i)

AsyncNext ==
    \/ AsyncMainTask
    \/ \E f \in Files :
         \/ AsyncOpenFile(f) \/ AsyncReadLine(f) \/ AsyncGather(f)
         \/ AsyncFileDone(f)
         \/ \E i \in 1..MaxLines : AsyncInsertDone(f, i) \/ AsyncHang(f, i)

AsyncHangSpec ==
    /\ AsyncInit
    /\ [][AsyncNext]_vars
    /\ WF_vars(AsyncMainTask)
    /\ \A f \in Files : WF_vars(AsyncFileTask(f))

(***************************************************************************)
(* The runners started with any of the option tables.                      *)
(***************************************************************************)
ConfigInit ==
    /\ mode \in Modes
    /\ dry \in BOOLEAN
    /\ nfiles \in 0..MaxFiles
    /\ options \in OptionTables
    /\ mpc = "start"
    /\ RunnerIdle
    /\ pline = <<>>
    /\ pres = None
    /\ ppc = "off"

ConfigSpec == ConfigInit /\ [][Next]_vars

(***************************************************************************)
(* Properties.                                                             *)
(***************************************************************************)
\* the batch bound of the accumulator described for the sequential runner
BATCH_SIZE == 100

Ceil(n, b) == (n + b - 1) \div b

MainEnded == mpc \in {"returned", "raised"}

\* the lines of file f that parsed and found a shard
Routed(f) ==
    flines[f] - nNone[f] - nUnknown[f] - (IF fcause[f] = "parse" THEN 1 ELSE 0)

\* the files whose counts are part of what the runner reported
Reported(f) ==
    /\ f \in Yielded
    /\ IF mode = "async" THEN mpc = "returned" /\ fpc[f] = "done"
       ELSE mpc \notin {"start", "submit"} /\ f < midx

\* C1: the processed and error counts reported by the runner add up to the
\* number of input lines of the files it reported on.
AccountingConservation ==
    total_processed + total_errors =
        Total([f \in Files |-> IF Reported(f) THEN flines[f] ELSE 0], MaxFiles)

\* the files the sequential runner reports on: those before the first file
\* whose processing raises
LinearReports(f) ==
    f \in Yielded /\ \A g \in 1..f : fpc[g] = "done"

\* C2: with dry-run on, every runner ends with the totals the sequential
\* runner reports on the same files: per reported file, one processed per
\* line that parses and routes and one error per other line.
RunnerEquivalence ==
    (dry /\ MainEnded) =>
        /\ total_processed =
             Total([f \in Files |-> IF LinearReports(f) THEN Routed(f) ELSE 0],
                   MaxFiles)
        /\ total_errors =
             Total([f \in Files |-> IF LinearReports(f)
                                    THEN nNone[f] + nUnknown[f] ELSE 0],
                   MaxFiles)

\* C3: with dry-run on there is no network write, and every record that
\* parses and routes is counted as processed.
DryRunNoNetworkWrite ==
    dry => /\ netWrites = 0
           /\ \A f \in Files : fpc[f] = "done" => fprocessed[f] = Routed(f)

\* C4: a failure of one file or one record never aborts the run: main
\* returns normally and every yielded file has been handed to processing.
FailuresNeverAbort ==
    /\ mpc # "raised"
    /\ mpc = "returned" => \A f \in Yielded : FileEnded(f)

\* C5: parse_appsinstalled returns a record or None for every line and
\* never raises.
ParserTotality ==
    /\ ppc # "raised"
    /\ ppc = "returned" => pres.tag \in {"AppsInstalled", "None"}

\* C6: a write that raises is caught inside the write operation: no file
\* processing ends with the exception of a write, main does not end with it,
\* and each such write is one error and never a processed record (a file's
\* error count is its failed writes plus the lines its runner counts as
\* rejected, its processed count the writes that did not raise).
WriteFailureIsOneError ==
    \A f \in Files :
        /\ fcause[f] # "write"
        /\ (mpc = "raised" => \E g \in Yielded : fcause[g] \in {"open", "parse"})
        /\ (Sync \/ fpc[f] = "done") =>
              /\ fprocessed[f] = nSucc[f]
              /\ ferrors[f] = nFail[f]
                    + (IF Sync THEN nNone[f] + nUnknown[f] ELSE 0)

\* C6 witness: main returned although a write of a file raised, and another
\* record of the same file was written.
WriteFailureSurvived ==
    /\ mpc = "returned"
    /\ \E f \in Yielded : fpc[f] = "done" /\ nFail[f] >= 1 /\ nSucc[f] >= 1

\* C7: a record whose device type has no shard is one error and no write:
\* a finished file has at least one error per such record, exactly that many
\* when nothing else went wrong, and no more writes than routed records.
UnknownDeviceIsOneError ==
    \A f \in Files :
        fpc[f] = "done" =>
            /\ ferrors[f] >= nUnknown[f]
            /\ (nNone[f] = 0 /\ nFail[f] = 0) => ferrors[f] = nUnknown[f]
            /\ attempts[f] <= Routed(f)

\* C8: no retries: a file never has more write attempts than lines that
\* parsed and routed, and every attempt is in flight, succeeded once or
\* failed once.
NoRetries ==
    \A f \in Files :
        /\ attempts[f] <= Routed(f)
        /\ attempts[f] = nSucc[f] + nFail[f] + Count(tasks[f], "awaiting")

\* C8 witness: the only write so far of a file failed and was counted as an
\* error, and the file is at the write of its next record.
FailedWriteThenNext ==
    \E f \in Yielded :
        /\ fpc[f] = "write" /\ flines[f] = 2
        /\ nFail[f] = 1 /\ attempts[f] = 1 /\ ferrors[f] = 1

\* C9: in the sequential runner the records of a file routed to one shard
\* reach the store in ceil(N / BATCH_SIZE) operations.
BatchBound ==
    (mode = "linear" /\ midx \in Yielded /\ fpc[midx] = "done") =>
        \A a \in Shards : flushes[a] = Ceil(routed[a], BATCH_SIZE)

\* C10: the run totals are the sums of the per-file results and of the
\* per-record outcomes of the reported files, whatever the order in which
\* the files returned.
TotalsAreSumOfUnits ==
    MainEnded =>
        /\ total_processed =
             Total([f \in Files |-> IF Reported(f) THEN fprocessed[f] ELSE 0],
                   MaxFiles)
        /\ total_processed =
             Total([f \in Files |-> IF Reported(f) THEN nSucc[f] ELSE 0],
                   MaxFiles)
        /\ total_errors =
             Total([f \in Files |-> IF Reported(f) THEN ferrors[f] ELSE 0],
                   MaxFiles)

\* C10 witness: a concurrent runner returned, the second file returned
\* before the first, and both contribute to the totals.
OutOfOrderCompletion ==
    /\ mode \in {"threaded", "async"}
    /\ mpc = "returned"
    /\ completed = <<2, 1>>
    /\ nSucc[1] >= 1 /\ nSucc[2] >= 1 /\ nFail[1] + nFail[2] >= 1

\* C11: in the worker-pool runner a write that never returns stalls only
\* its own file: every run ends up with every submitted file processed to
\* its end (or raised) unless a write of that very file hangs.
HungWriteStallsOnlyItsFile ==
    <>[](\A f \in Files : fpc[f] \notin {"open", "read", "write"})

\* C11 witness: a write of one file hangs and another file, with a record
\* written, is processed to its end.
HungWorkerOtherFileDone ==
    /\ mode = "threaded"
    /\ \E f, g \in Yielded :
         /\ fpc[f] = "hung"
         /\ fpc[g] = "done" /\ nSucc[g] >= 1

\* task i of file f is in one of the states S
TaskIn(f, i, S) == i <= Len(tasks[f]) /\ tasks[f][i] \in S

\* C12: in the cooperative runner a write that never returns stalls only its
\* own task: every run ends up with every file read to its end (or raised)
\* and with every issued write either completed or itself hung; no write and
\* no file is left waiting behind a hung one.
HungWriteStallsOnlyItsTask ==
    <>[](\A f \in Files :
            /\ fpc[f] \notin {"open", "read"}
            /\ \A i \in 1..MaxLines : ~TaskIn(f, i, {"awaiting"}))

\* C12 witness: the first write of a file hangs and the write of the next
\* record of the same file completes.
HungTaskSiblingDone ==
    \E f \in Yielded :
        /\ fpc[f] = "gather"
        /\ TaskIn(f, 1, {"hung"}) /\ TaskIn(f, 2, {"True"})

\* the shard configuration of the run holds an address that names no store
MalformedConfig == \E k \in DOMAIN options : options[k] = BadAddr

\* C13: a run started with a malformed shard configuration is aborted
\* before any file is opened and before any record is written: no file
\* leaves its initial position and no write is attempted.
MalformedConfigAborts ==
    MalformedConfig =>
        \A f \in Files : fpc[f] = "idle" /\ attempts[f] = 0 /\ flines[f] = 0

\* C14: in the cooperative runner the failure of one insert task cancels no
\* sibling: while a file is in its gather every finished task keeps its own
\* outcome and no count is computed yet, and the counts of a finished file
\* hold every issued task exactly once, as processed if its write succeeded
\* and as an error otherwise.
EachTaskCountsOnce ==
    \A f \in Files :
        /\ (mode = "async" /\ fpc[f] = "gather") =>
              /\ Count(tasks[f], "True") = nSucc[f]
              /\ Count(tasks[f], "False") = nFail[f]
              /\ Len(tasks[f]) = attempts[f]
              /\ fprocessed[f] = 0 /\ ferrors[f] = 0
        /\ (mode = "async" /\ fpc[f] = "done") =>
              /\ fprocessed[f] = nSucc[f]
              /\ ferrors[f] = nFail[f]
              /\ nSucc[f] + nFail[f] = attempts[f]

\* C14 witness: a file of the cooperative runner is finished with two tasks
\* issued, one failed and one succeeded.
FailedTaskSiblingCounted ==
    /\ mode = "async"
    /\ \E f \in Yielded :
         /\ fpc[f] = "done" /\ attempts[f] = 2
         /\ fprocessed[f] = 1 /\ ferrors[f] = 1

\* C15: in the cooperative runner the insert tasks of a file are issued
\* together and joined together: while the file is being read (or its read
\* raised) no write of it has started, at the gather one task per routed
\* line is in flight or finished, and the file's result is produced only in
\* a step from the gather with every task finished.
IssuedAndJoinedTogether ==
    /\ [](\A f \in Files :
            mode = "async" =>
              /\ fpc[f] \in {"idle", "open", "read", "raised"} =>
                    /\ attempts[f] = 0 /\ nSucc[f] = 0 /\ nFail[f] = 0
                    /\ \A i \in 1..Len(tasks[f]) : tasks[f][i] = "created"
              /\ fpc[f] = "gather" =>
                    /\ Len(tasks[f]) = Routed(f)
                    /\ \A i \in 1..Len(tasks[f]) : tasks[f][i] # "created")
    /\ [][\A f \in Files :
            (mode = "async" /\ fpc[f] # "done" /\ fpc'[f] = "done") =>
                /\ fpc[f] = "gather"
                /\ GatherReturns(tasks[f])
                /\ fprocessed'[f] + ferrors'[f] = Len(tasks[f])]_vars

\* C15 witness: a file of two routed lines is at its gather with one write
\* finished and the other still in flight.
GatherHalfDone ==
    /\ mode = "async"
    /\ \E f \in Yielded :
         /\ fpc[f] = "gather" /\ flines[f] >= 2
         /\ tasks[f] = <<"True", "awaiting">>

\* C16 as stated: in the worker-pool runner a result is taken into the
\* totals only once every worker has completed.
CombinedAfterAllWorkers ==
    (mode = "threaded" /\ mpc = "collect" /\ midx > 1) =>
        \A f \in Yielded : FileEnded(f)

\* the counts of file f change in this step
CountsChange(f) == fprocessed'[f] # fprocessed[f] \/ ferrors'[f] # ferrors[f]

\* C16 amended: in the worker-pool runner the counts of a file are changed
\* only by the worker that is processing it, one file per step and never
\* together with the totals; the main thread takes a file's result into the
\* totals only when that file's worker has returned, and takes what the
\* worker counted.
OwnResultReadWhenReady ==
    [][mode = "threaded" =>
         /\ \A f \in Files :
              CountsChange(f) =>
                  /\ fpc[f] \in {"read", "write"}
                  /\ \A g \in Files \ {f} : ~CountsChange(g)
                  /\ total_processed' = total_processed
                  /\ total_errors' = total_errors
         /\ (total_processed' # total_processed \/ total_errors' # total_errors)
              => /\ mpc = "collect" /\ fpc[midx] = "done"
                 /\ total_processed' = total_processed + nSucc[midx]
                 /\ total_errors' = total_errors + ferrors[midx]
                 /\ midx' = midx + 1]_vars

\* C16 witness: the main thread has taken the result of the first file, with
\* a record written, while the worker of the second file is still running
\* and has counted a record of its own.
FirstCollectedSecondRunning ==
    /\ mode = "threaded" /\ mpc = "collect" /\ midx = 2
    /\ total_processed = fprocessed[1] /\ fprocessed[1] >= 1
    /\ fpc[2] \in {"read", "write"} /\ fprocessed[2] >= 1

\* C17: the sequential runner writes in one fixed order: the files before
\* the one main is at are finished, in enumeration order, and the files
\* after it are untouched; the only write that can be in flight is the one
\* of the last line read of the file main is at, every earlier routed line
\* of it having been written or failed; and writes are only ever attempted
\* for that file.
SequentialWriteOrder ==
    /\ [](mode = "linear" =>
            /\ completed = [i \in 1..Len(completed) |-> i]
            /\ \A f \in Files :
                 /\ (f < midx /\ mpc # "start") => fpc[f] = "done"
                 /\ (f > midx \/ mpc = "start") =>
                       fpc[f] = "idle" /\ attempts[f] = 0 /\ flines[f] = 0
                 /\ attempts[f] =
                       Routed(f) - (IF fpc[f] = "write" THEN 1 ELSE 0)
            /\ Cardinality({f \in Files : fpc[f] = "write"}) <= 1)
    /\ [][mode = "linear" =>
            \A f \in Files :
                attempts'[f] # attempts[f] =>
                    /\ f = midx /\ fpc[f] = "write"
                    /\ attempts'[f] = attempts[f] + 1]_vars

\* C17 witness: the sequential runner has finished the first file, with a
\* record written, and the write of the second line of the second file is
\* in flight after the write of its first line.
SecondFileSecondWrite ==
    /\ mode = "linear" /\ midx = 2
    /\ fpc[1] = "done" /\ attempts[1] >= 1
    /\ fpc[2] = "write" /\ flines[2] = 2 /\ attempts[2] = 1

\* the tab-separated fields of a line, read as the parser reads them
Fields(line) == split(strip(line), "\t")

\* field 5 holds a piece that is no integer
BadApps(fs) ==
    LET raw_apps == split(fs[5], ",")
    IN  \E i \in 1..Len(raw_apps) : ~IsInt(raw_apps[i])

\* a line the parser has to reject: fewer than five fields, an empty
\* identity field, a bad app id or a bad coordinate
Rejectable(fs) ==
    \/ Len(fs) < 5
    \/ fs[1] = <<>> \/ fs[2] = <<>>
    \/ BadApps(fs)
    \/ ~IsFloat(fs[3]) \/ ~IsFloat(fs[4])

\* C18: parse_appsinstalled returns a record only for a line that is not to
\* be rejected, the record holding the app ids in input order, and a line
\* with fewer than five fields, an empty identity field, a bad app id or a
\* bad coordinate yields None.
ParserContract ==
    ppc \in {"returned", "raised"} =>
        LET fs == Fields(pline) IN
        /\ (ppc = "returned" /\ pres.tag = "AppsInstalled") =>
              /\ ~Rejectable(fs)
              /\ pres.apps = [i \in 1..Len(split(fs[5], ",")) |->
                                IntVal(split(fs[5], ",")[i])]
        /\ Rejectable(fs) => (ppc = "returned" /\ pres.tag = "None")

\* C19: in every mode each path the enumerator yields is handed to exactly
\* one file-processing invocation: paths are taken in enumeration order with
\* none passed over, a run that returns (and a concurrent run that raises)
\* has processed every path to its end, and an invocation that has started
\* is never started again nor its line count reset.
OneInvocationPerPath ==
    /\ [](/\ \A f \in Files : f \notin Yielded => fpc[f] = "idle"
          /\ \A f, g \in Files : (f < g /\ fpc[g] # "idle") => fpc[f] # "idle"
          /\ mpc = "returned" => \A f \in Yielded : FileEnded(f)
          /\ (mode # "linear" /\ mpc = "raised") =>
                \A f \in Yielded : FileEnded(f)
          /\ (mode = "linear" /\ mpc = "raised") =>
                \A f \in Yielded : f <= midx <=> fpc[f] # "idle")
    /\ [][\A f \in Files :
            /\ fpc'[f] = "open" => fpc[f] \in {"idle", "open"}
            /\ fpc'[f] = "idle" => fpc[f] = "idle"
            /\ flines'[f] >= flines[f]]_vars

\* C19 witness: the worker-pool run ended with the exception of the first
\* file and the second file was still processed, with a line read.
RaisedRunProcessedEveryPath ==
    /\ mode = "threaded" /\ mpc = "raised" /\ nfiles = 2
    /\ fpc[1] = "raised" /\ fpc[2] = "done" /\ flines[2] >= 1

\* C20: in the cooperative runner a file whose task ends with an exception
\* is left out of the totals: none of its writes was started and it has no
\* counts, the run does not end with its exception, and the totals returned
\* are the successful and the failed writes of the files that returned.
RaisedFileLeftOut ==
    mode = "async" =>
        /\ mpc # "raised"
        /\ \A f \in Files :
             fpc[f] = "raised" =>
                 /\ attempts[f] = 0 /\ nSucc[f] = 0 /\ nFail[f] = 0
                 /\ fprocessed[f] = 0 /\ ferrors[f] = 0
        /\ mpc = "returned" =>
             /\ total_processed =
                  Total([f \in Files |-> IF fpc[f] = "done" THEN nSucc[f] ELSE 0],
                        MaxFiles)
             /\ total_errors =
                  Total([f \in Files |-> IF fpc[f] = "done" THEN nFail[f] ELSE 0],
                        MaxFiles)

\* C20 witness: the cooperative run returned; the first file raised in the
\* parser after a line that was routed to a shard, the second file wrote a
\* record, and the totals hold the second file only.
RaisedFileWithRoutedLine ==
    /\ mode = "async" /\ mpc = "returned" /\ nfiles = 2
    /\ fpc[1] = "raised" /\ fcause[1] = "parse" /\ Routed(1) >= 1
    /\ fpc[2] = "done" /\ fprocessed[2] = 1
    /\ total_processed = 1 /\ total_errors = 0

====
